---- MODULE Spec2Model ----
(***************************************************************************)
(* Buffer pool manager and LRU-K replacer of                              *)
(* src/buffer/buffer_pool_manager.cpp and src/buffer/lru_k_replacer.cpp.  *)
(*                                                                         *)
(* Every operation of the two classes is a pure operator from the state   *)
(* before the call to the state after it, written statement by statement  *)
(* from the source; the actions apply these operators to the variables.   *)
(***************************************************************************)
EXTENDS Integers, Sequences, FiniteSets, TLC

\* ------------------------------------------------------------------ bounds
\* pool_size / num_frames handed to the constructors.
PoolSize == 2
\* replacer_k handed to the constructors.
ReplacerK == 2
\* Page ids a caller may name, 0 .. MaxPageId - 1 (one page more than the
\* pool has frames); NewPage stops handing out ids when next_page_id_
\* reaches MaxPageId.
MaxPageId == 3
\* Cap on current_timestamp_ in Spec and SpecData: no access is recorded
\* once it is reached.
MaxTimestamp == 4
\* Page contents are one value of 0 .. MaxByte (0 is the zeroed buffer).
MaxByte == 1

\* Threads that call FetchPage at the same time.
NumThreads == 2
\* Cap on current_timestamp_ in SpecRoundTrip: the round trip of a page
\* through eviction beside a second copy of it takes five accesses.
RoundTripClock == MaxTimestamp + 1
\* Cap on current_timestamp_ in SpecReplacer: two nodes with full histories.
ReplacerClock == MaxTimestamp + 1

\* ------------------------------------------------------- program constants
INVALID_PAGE_ID == -1
\* std::numeric_limits<size_t>::max(): only its order against differences of
\* timestamps is used, so the largest integer TLC represents stands for it.
SIZE_MAX == 2147483647

FrameIds == 0 .. (PoolSize - 1)
PageIds == 0 .. (MaxPageId - 1)
Bytes == 0 .. MaxByte
Threads == 1 .. NumThreads
NoThread == 0
\* Frame ids handed to the replacer directly, in and out of range.
AnyFrameIds == -1 .. PoolSize

\* No entry under a key of node_store_ / page_table_.
NoNode == [absent |-> TRUE]
NoFrame == -2

VARIABLES
  pages_,         \* Page[pool_size_]: page_id_, pin_count_, is_dirty_, data_
  page_table_,    \* page id -> frame id, NoFrame where there is no entry
  free_list_,     \* std::list<frame_id_t>
  next_page_id_,  \* the page id AllocatePage hands out next
  replacer_,      \* LRUKReplacer: node_store_, current_timestamp_, curr_size_
  disk,           \* stable storage behind the disk scheduler: page id -> bytes
  io,             \* the disk requests issued, in order (of the last call in Spec)
  ret,            \* the last call: its name, page and outcome
  rt,             \* history: how far each page is through the round trip of P7
  handles,        \* history: per page id, the handles handed out and not yet returned
  latch_,         \* BufferPoolManager::latch_: the thread that holds it, or NoThread
  pc,             \* each thread's place in its FetchPage call
  call,           \* each thread's call: its name, arguments and the value returned
  replacer_latch_,  \* LRUKReplacer::latch_: the thread that holds it, or NoThread
  rwlatch_,       \* Page::rwlatch_ of each frame: its writer and its readers
  pending         \* the disk requests scheduled and not yet completed

bpmVars == <<pages_, page_table_, free_list_, next_page_id_, replacer_, disk>>
threadVars == <<latch_, pc, call, replacer_latch_, rwlatch_, pending>>
vars == <<pages_, page_table_, free_list_, next_page_id_, replacer_, disk, io, ret, rt,
          handles, latch_, pc, call, replacer_latch_, rwlatch_, pending>>

\* ================================================================ replacer
\* LRUKNode{}: an empty history, not evictable.
LRUKNode == [history_ |-> <<>>, is_evictable_ |-> FALSE]

\* LRUKReplacer::LRUKReplacer
NewReplacer ==
  [node_store_ |-> [f \in FrameIds |-> NoNode],
   current_timestamp_ |-> 0,
   curr_size_ |-> 0,
   replacer_size_ |-> PoolSize,
   k_ |-> ReplacerK]

HasNode(r, f) == f \in FrameIds /\ r.node_store_[f] # NoNode

\* static_cast<size_t>(frame_id) >= replacer_size_: a negative id casts to a
\* value above every replacer_size_.
OutOfRange(r, f) == f < 0 \/ f >= r.replacer_size_

\* The tuple Evict pushes for an evictable node: (fid, k-distance, front()).
EvictEntry(r, f) ==
  LET node == r.node_store_[f]
  IN IF Len(node.history_) < r.k_
       THEN <<f, SIZE_MAX, Head(node.history_)>>
       ELSE <<f, r.current_timestamp_ - Head(node.history_), Head(node.history_)>>

EvictList(r) ==
  {EvictEntry(r, f) : f \in {g \in FrameIds : HasNode(r, g) /\ r.node_store_[g].is_evictable_}}

\* SortBefore with the tie-break turned round.
SortBeforeNewestFirst(lhs, rhs) ==
  IF lhs[2] = rhs[2] THEN lhs[3] > rhs[3] ELSE lhs[2] > rhs[2]

\* The comparator handed to std::sort: lhs goes before rhs.
SortBefore(lhs, rhs) ==
  IF lhs[2] = rhs[2] THEN lhs[3] < rhs[3] ELSE lhs[2] > rhs[2]

\* The entries std::sort may leave at the front: those no other entry goes before.
SortedFront(list) == {e \in list : \A d \in list : ~SortBefore(d, e)}

\* LRUKReplacer::Evict with the front entry e of the sorted list.
EvictAs(r, e) ==
  [r |-> [r EXCEPT !.node_store_[e[1]] = NoNode, !.curr_size_ = r.curr_size_ - 1],
   ok |-> TRUE, frame |-> e[1], thrown |-> "none"]

EvictNone(r) == [r |-> r, ok |-> FALSE, frame |-> INVALID_PAGE_ID, thrown |-> "none"]

\* Every outcome of LRUKReplacer::Evict (one, unless the sort has ties).
EvictOutcomes(r) ==
  IF EvictList(r) = {} THEN {EvictNone(r)}
  ELSE {EvictAs(r, e) : e \in SortedFront(EvictList(r))}

\* RecordAccess without the pop_front of lines 62-64.
RecordAccessNoPop(r, f) ==
  IF OutOfRange(r, f)
    THEN [r |-> r, thrown |-> "out_of_range"]
    ELSE LET node == IF r.node_store_[f] = NoNode THEN LRUKNode ELSE r.node_store_[f]
         IN [r |-> [r EXCEPT
                      !.node_store_[f] =
                         [node EXCEPT !.history_ = Append(@, r.current_timestamp_)],
                      !.current_timestamp_ = r.current_timestamp_ + 1],
             thrown |-> "none"]

\* LRUKReplacer::RecordAccess
RecordAccess(r, f) ==
  IF OutOfRange(r, f)
    THEN [r |-> r, thrown |-> "out_of_range"]
    ELSE LET node == IF r.node_store_[f] = NoNode THEN LRUKNode
                     ELSE IF Len(r.node_store_[f].history_) >= r.k_
                       THEN [r.node_store_[f] EXCEPT !.history_ = Tail(@)]
                       ELSE r.node_store_[f]
         IN [r |-> [r EXCEPT
                      !.node_store_[f] =
                         [node EXCEPT !.history_ = Append(@, r.current_timestamp_)],
                      !.current_timestamp_ = r.current_timestamp_ + 1],
             thrown |-> "none"]

\* SetEvictable without the test set_evictable != old_evictable.
SetEvictableUnchecked(r, f, set_evictable) ==
  IF OutOfRange(r, f) \/ ~HasNode(r, f)
    THEN [r |-> r, thrown |-> "out_of_range"]
    ELSE [r |-> [r EXCEPT
                   !.curr_size_ = IF set_evictable THEN @ + 1 ELSE @ - 1,
                   !.node_store_[f].is_evictable_ = set_evictable],
          thrown |-> "none"]

\* LRUKReplacer::SetEvictable
SetEvictable(r, f, set_evictable) ==
  IF OutOfRange(r, f) \/ ~HasNode(r, f)
    THEN [r |-> r, thrown |-> "out_of_range"]
    ELSE LET old_evictable == r.node_store_[f].is_evictable_
         IN IF set_evictable # old_evictable
              THEN [r |-> [r EXCEPT
                             !.curr_size_ = IF set_evictable THEN @ + 1 ELSE @ - 1,
                             !.node_store_[f].is_evictable_ = set_evictable],
                    thrown |-> "none"]
              ELSE [r |-> r, thrown |-> "none"]

\* LRUKReplacer::Remove
Remove(r, f) ==
  IF OutOfRange(r, f)
    THEN [r |-> r, thrown |-> "out_of_range"]
    ELSE IF ~HasNode(r, f)
      THEN [r |-> r, thrown |-> "none"]
      ELSE IF r.node_store_[f].is_evictable_ = FALSE
        THEN [r |-> r, thrown |-> "logic_error"]
        ELSE [r |-> [r EXCEPT !.node_store_[f] = NoNode, !.curr_size_ = @ - 1],
              thrown |-> "none"]

\* LRUKReplacer::Size
Size(r) == r.curr_size_

\* ===================================================================== disk
\* A request the BPM hands to DiskScheduler::Schedule, as the disk sees it.
DiskRequest(is_write, data, page_id) ==
  [is_write_ |-> is_write, data_ |-> data, page_id_ |-> page_id]

\* ============================================================== buffer pool
\* A Page after ResetMemory with the metadata of an empty frame.
EmptyPage ==
  [page_id_ |-> INVALID_PAGE_ID, pin_count_ |-> 0, is_dirty_ |-> FALSE, data_ |-> 0]

\* The state of a BufferPoolManager with its disk, as one record.
Bpm ==
  [pages_ |-> pages_, page_table_ |-> page_table_, free_list_ |-> free_list_,
   next_page_id_ |-> next_page_id_, replacer_ |-> replacer_, disk |-> disk,
   io |-> <<>>]

\* The database file when the pool is constructed: pages written by earlier
\* runs, here a different byte under neighbouring page ids.
DiskAtStart == [p \in PageIds |-> (p + 1) % (MaxByte + 1)]

\* BufferPoolManager::BufferPoolManager as written: the throw of lines 24-26
\* is the first statement of the body, so lines 28-35 are never reached and no
\* pool is constructed, whatever pool_size and replacer_k are.
BufferPoolManager(pool_size, replacer_k) ==
  [constructed |-> FALSE, thrown |-> "NotImplementedException"]

\* BufferPoolManager::BufferPoolManager, the statements after the throw.
NewBpm ==
  [pages_ |-> [f \in FrameIds |-> EmptyPage],
   page_table_ |-> [p \in PageIds |-> NoFrame],
   free_list_ |-> [i \in 1 .. PoolSize |-> i - 1],
   next_page_id_ |-> 0,
   replacer_ |-> NewReplacer,
   disk |-> DiskAtStart,
   io |-> <<>>]

\* page_table_.find(page_id) != page_table_.end()
Resident(b, p) == p \in PageIds /\ b.page_table_[p] # NoFrame

\* page_table_.erase(page_id): nothing to erase under an absent key.
TableErase(table, p) == IF p \in DOMAIN table THEN [table EXCEPT ![p] = NoFrame] ELSE table

\* The disk once the scheduler has completed a write request: it holds the
\* request's bytes under its page id.
DiskAfterWrite(d, request) ==
  IF request.page_id_ \in DOMAIN d THEN [d EXCEPT ![request.page_id_] = request.data_] ELSE d

\* The bytes a completed read request of page p leaves in its buffer.
DiskRead(d, p) == d[p]

\* BufferPoolManager::WriteFrame: the request is scheduled and awaited.
WriteFrame(b, f, p) ==
  LET request == DiskRequest(TRUE, b.pages_[f].data_, p)
  IN [b EXCEPT !.disk = DiskAfterWrite(@, request), !.io = Append(@, request)]

\* BufferPoolManager::ReadFrame: the request is scheduled and awaited; the
\* frame's buffer then holds the bytes read.
ReadFrame(b, f, p) ==
  [b EXCEPT !.pages_[f].data_ = DiskRead(b.disk, p),
            !.io = Append(@, DiskRequest(FALSE, DiskRead(b.disk, p), p))]

\* WriteBackIfDirty with the write-back left out.
WriteBackNever(b, f) == b

\* The write-back of AllocateFrame: if (pages_[frame_id].IsDirty()) WriteFrame.
WriteBackIfDirty(b, f) ==
  IF b.pages_[f].is_dirty_ THEN WriteFrame(b, f, b.pages_[f].page_id_) ELSE b

\* AllocateFrame's branch on a frame the replacer evicted.
AllocateEvicted(b, e) ==
  LET b1 == [b EXCEPT !.replacer_ = e.r]
      b2 == WriteBackIfDirty(b1, e.frame)
  IN [b |-> [b2 EXCEPT !.page_table_ = TableErase(@, b2.pages_[e.frame].page_id_)],
      frame_id |-> e.frame]

\* BufferPoolManager::AllocateFrame: every outcome.
AllocateFrame(b) ==
  IF b.free_list_ # <<>>
    THEN {[b |-> [b EXCEPT !.free_list_ = Tail(@)], frame_id |-> Head(b.free_list_)]}
    ELSE {IF e.ok THEN AllocateEvicted(b, e)
                  ELSE [b |-> [b EXCEPT !.replacer_ = e.r], frame_id |-> INVALID_PAGE_ID]
          : e \in EvictOutcomes(b.replacer_)}

\* replacer_->RecordAccess(frame_id); replacer_->SetEvictable(frame_id, false);
\* the second call is skipped when the first throws.
PinInReplacer(r, f) ==
  LET a == RecordAccess(r, f)
  IN IF a.thrown # "none" THEN a ELSE SetEvictable(a.r, f, FALSE)

\* What a call leaves behind: the state, the Page* returned (as its frame id),
\* the page id written or named, the bool returned, the exception that left it.
Outcome(b, frame, page, ok, thrown) ==
  [b |-> b, frame |-> frame, page |-> page, ok |-> ok, thrown |-> thrown]

\* NewPage after a frame was allocated (lines 49-59).
NewPageIn(b, f) ==
  LET page_id == b.next_page_id_
      b1 == [b EXCEPT !.next_page_id_ = @ + 1,
                      !.pages_[f] = [page_id_ |-> page_id, pin_count_ |-> 1,
                                     is_dirty_ |-> FALSE, data_ |-> 0]]
      a == PinInReplacer(b1.replacer_, f)
      b2 == [b1 EXCEPT !.replacer_ = a.r]
  IN IF a.thrown # "none"
       THEN Outcome(b2, INVALID_PAGE_ID, page_id, FALSE, a.thrown)
       ELSE Outcome([b2 EXCEPT !.page_table_[page_id] = f], f, page_id, TRUE, "none")

\* NewPage with AllocatePage called before the frame is tested.
NewPageEager(b) ==
  {IF a.frame_id = INVALID_PAGE_ID
     THEN Outcome([a.b EXCEPT !.next_page_id_ = @ + 1], INVALID_PAGE_ID, b.next_page_id_,
                  FALSE, "none")
     ELSE NewPageIn(a.b, a.frame_id)
   : a \in AllocateFrame(b)}

\* BufferPoolManager::NewPage: every outcome.
NewPage(b) ==
  {IF a.frame_id = INVALID_PAGE_ID
     THEN Outcome(a.b, INVALID_PAGE_ID, INVALID_PAGE_ID, FALSE, "none")
     ELSE NewPageIn(a.b, a.frame_id)
   : a \in AllocateFrame(b)}

\* FetchPage on a page the page table holds (lines 66-75).
FetchPageHit(b, page_id) ==
  LET f == b.page_table_[page_id]
      b1 == [b EXCEPT !.pages_[f].pin_count_ = @ + 1]
      a == PinInReplacer(b1.replacer_, f)
      b2 == [b1 EXCEPT !.replacer_ = a.r]
  IN IF a.thrown # "none"
       THEN Outcome(b2, INVALID_PAGE_ID, page_id, FALSE, a.thrown)
       ELSE Outcome(b2, f, page_id, TRUE, "none")

\* FetchPage after ReadFrame returned (lines 85-93).
FetchPageInstall(b0, f, page_id) ==
  LET b1 == [b0 EXCEPT !.pages_[f].page_id_ = page_id,
                       !.pages_[f].pin_count_ = 1,
                       !.pages_[f].is_dirty_ = FALSE]
      a == PinInReplacer(b1.replacer_, f)
      b2 == [b1 EXCEPT !.replacer_ = a.r]
  IN IF a.thrown # "none"
       THEN Outcome(b2, INVALID_PAGE_ID, page_id, FALSE, a.thrown)
       ELSE Outcome([b2 EXCEPT !.page_table_[page_id] = f], f, page_id, TRUE, "none")

\* FetchPage after a frame was allocated for a miss (lines 84-93).
FetchPageIn(b, f, page_id) == FetchPageInstall(ReadFrame(b, f, page_id), f, page_id)

\* BufferPoolManager::FetchPage: every outcome.
FetchPage(b, page_id) ==
  IF Resident(b, page_id)
    THEN {FetchPageHit(b, page_id)}
    ELSE {IF a.frame_id = INVALID_PAGE_ID
            THEN Outcome(a.b, INVALID_PAGE_ID, page_id, FALSE, "none")
            ELSE FetchPageIn(a.b, a.frame_id, page_id)
          : a \in AllocateFrame(b)}

\* UnpinPageIn without the test pin_count_ == 0 before SetEvictable(frame_id, true).
UnpinPageInAlways(b, f, page_id, is_dirty) ==
  LET b1 == [b EXCEPT !.pages_[f].pin_count_ = @ - 1,
                      !.pages_[f].is_dirty_ = (@ \/ is_dirty)]
      a == SetEvictable(b1.replacer_, f, TRUE)
  IN Outcome([b1 EXCEPT !.replacer_ = a.r], f, page_id, a.thrown = "none", a.thrown)

\* UnpinPage past its two early returns (lines 110-118).
UnpinPageIn(b, f, page_id, is_dirty) ==
  LET b1 == [b EXCEPT !.pages_[f].pin_count_ = @ - 1,
                      !.pages_[f].is_dirty_ = (@ \/ is_dirty)]
  IN IF b1.pages_[f].pin_count_ = 0
       THEN LET a == SetEvictable(b1.replacer_, f, TRUE)
            IN Outcome([b1 EXCEPT !.replacer_ = a.r], f, page_id,
                       a.thrown = "none", a.thrown)
       ELSE Outcome(b1, f, page_id, TRUE, "none")

\* UnpinPage with is_dirty_ |= is_dirty moved in front of the test of pin_count_.
UnpinPageHintFirst(b, page_id, is_dirty) ==
  IF ~Resident(b, page_id)
    THEN Outcome(b, INVALID_PAGE_ID, page_id, FALSE, "none")
    ELSE LET f == b.page_table_[page_id]
             b1 == [b EXCEPT !.pages_[f].is_dirty_ = (@ \/ is_dirty)]
         IN IF b.pages_[f].pin_count_ <= 0
              THEN Outcome(b1, f, page_id, FALSE, "none")
              ELSE UnpinPageIn(b, f, page_id, is_dirty)

\* BufferPoolManager::UnpinPage
UnpinPage(b, page_id, is_dirty) ==
  IF ~Resident(b, page_id)
    THEN Outcome(b, INVALID_PAGE_ID, page_id, FALSE, "none")
    ELSE IF b.pages_[b.page_table_[page_id]].pin_count_ <= 0
      THEN Outcome(b, b.page_table_[page_id], page_id, FALSE, "none")
      ELSE UnpinPageIn(b, b.page_table_[page_id], page_id, is_dirty)

\* WriteFrame(frame_id, page_id); pages_[frame_id].is_dirty_ = false;
FlushFrame(b, f, page_id) ==
  [WriteFrame(b, f, page_id) EXCEPT !.pages_[f].is_dirty_ = FALSE]

\* BufferPoolManager::FlushPage, for a page id that is not INVALID_PAGE_ID.
FlushPage(b, page_id) ==
  IF ~Resident(b, page_id)
    THEN Outcome(b, INVALID_PAGE_ID, page_id, FALSE, "none")
    ELSE Outcome(FlushFrame(b, b.page_table_[page_id], page_id),
                 b.page_table_[page_id], page_id, TRUE, "none")

\* The loop of FlushAllPages over the entries left, in any order (the page
\* table is an unordered map): every state the loop can end in.
RECURSIVE FlushEntries(_, _)
FlushEntries(b, left) ==
  IF left = {} THEN {b}
  ELSE UNION {FlushEntries(FlushFrame(b, b.page_table_[p], p), left \ {p}) : p \in left}

\* BufferPoolManager::FlushAllPages: every outcome.
FlushAllPages(b) ==
  {Outcome(b1, INVALID_PAGE_ID, INVALID_PAGE_ID, TRUE, "none")
   : b1 \in FlushEntries(b, {p \in PageIds : Resident(b, p)})}

\* DeletePageIn without replacer_->Remove(frame_id).
DeletePageInKeepNode(b, f, page_id) ==
  LET b1 == [b EXCEPT !.page_table_ = TableErase(@, page_id),
                      !.free_list_ = Append(@, f)]
  IN Outcome([b1 EXCEPT !.pages_[f] = EmptyPage], f, page_id, TRUE, "none")

\* DeletePage past its two early returns (lines 159-169).
DeletePageIn(b, f, page_id) ==
  LET b1 == [b EXCEPT !.page_table_ = TableErase(@, page_id),
                      !.free_list_ = Append(@, f)]
      a == Remove(b1.replacer_, f)
      b2 == [b1 EXCEPT !.replacer_ = a.r]
  IN IF a.thrown # "none"
       THEN Outcome(b2, f, page_id, FALSE, a.thrown)
       ELSE Outcome([b2 EXCEPT !.pages_[f] = EmptyPage], f, page_id, TRUE, "none")

\* DeletePage without the test pin_count_ > 0.
DeletePagePinned(b, page_id) ==
  IF ~Resident(b, page_id)
    THEN Outcome(b, INVALID_PAGE_ID, page_id, TRUE, "none")
    ELSE DeletePageIn(b, b.page_table_[page_id], page_id)

\* BufferPoolManager::DeletePage
DeletePage(b, page_id) ==
  IF ~Resident(b, page_id)
    THEN Outcome(b, INVALID_PAGE_ID, page_id, TRUE, "none")
    ELSE IF b.pages_[b.page_table_[page_id]].pin_count_ > 0
      THEN Outcome(b, b.page_table_[page_id], page_id, FALSE, "none")
      ELSE DeletePageIn(b, b.page_table_[page_id], page_id)

\* =================================================================== threads
\* A thread that is in no call.
NoCall ==
  [op |-> "none", page_id |-> INVALID_PAGE_ID, frame_id |-> INVALID_PAGE_ID,
   flag |-> FALSE, page |-> NoFrame, concurrent |-> FALSE]

\* A ReaderWriterLatch that no thread holds.
Unlatched == [writer |-> NoThread, readers |-> {}]

\* ====================================================== history of handles
\* The handles on page p that are out after a call left outcome o: one more
\* for each NewPage or FetchPage that returned p, counted from 0 when p was not
\* resident before the call, and one fewer for each UnpinPage(p) that
\* returned true.
HandlesAfter(op, o, p) ==
  IF op \in {"NewPage", "FetchPage"} /\ o.ok /\ o.page = p
    THEN (IF page_table_[p] # NoFrame THEN handles[p] ELSE 0) + 1
  ELSE IF op = "UnpinPage" /\ o.ok /\ o.page = p
    THEN handles[p] - 1
  ELSE handles[p]

\* ========================================================= history of P7
\* rt[p] follows page p through new_page -> write -> unpin(dirty = true) ->
\* eviction by calls on other pages -> fetch_page; any other call that names p
\* takes p out of the round trip.
RtNone == [stage |-> "none", bytes |-> 0]

RtAfter(op, o, is_dirty, p) ==
  LET cur == rt[p]
      f == page_table_[p]
  IN IF op = "NewPage" /\ o.ok /\ o.page = p
       THEN [stage |-> "held", bytes |-> 0]
     ELSE IF op = "UnpinPage" /\ o.page = p
       THEN IF cur.stage = "held" /\ o.ok /\ is_dirty /\ o.b.pages_[f].pin_count_ = 0
              THEN [stage |-> "released", bytes |-> o.b.pages_[f].data_]
              ELSE RtNone
     ELSE IF op = "FetchPage" /\ o.page = p
       THEN IF cur.stage = "evicted" /\ o.ok
              THEN [stage |-> "fetched", bytes |-> cur.bytes]
              ELSE RtNone
     ELSE IF op \notin {"NewPage", "FetchPage", "UnpinPage"} \/ cur.stage = "fetched"
       THEN RtNone
     ELSE IF op \in {"NewPage", "FetchPage"} /\ cur.stage \in {"held", "released"}
             /\ o.b.page_table_[p] = NoFrame
       THEN IF cur.stage = "released" /\ o.ok /\ o.frame = f
              THEN [stage |-> "evicted", bytes |-> cur.bytes]
              ELSE RtNone
     ELSE cur

\* A caller's write of v into frame f, seen from page p.
RtAfterWrite(f, v, p) ==
  IF rt[p].stage = "fetched" THEN RtNone
  ELSE IF page_table_[p] = f /\ rt[p].stage = "held" THEN [rt[p] EXCEPT !.bytes = v]
  ELSE IF pages_[f].page_id_ = p THEN RtNone
  ELSE rt[p]

\* ================================================================== actions
\* The variables after a call that left outcome o; track names the history
\* that follows the call: "round trip", "handles" or "none".
Return(op, o, is_dirty, track) ==
  /\ pages_' = o.b.pages_
  /\ page_table_' = o.b.page_table_
  /\ free_list_' = o.b.free_list_
  /\ next_page_id_' = o.b.next_page_id_
  /\ replacer_' = o.b.replacer_
  /\ disk' = o.b.disk
  /\ io' = o.b.io
  /\ ret' = [op |-> op, page |-> o.page, frame |-> o.frame,
             ok |-> o.ok, thrown |-> o.thrown]
  /\ rt' = IF track = "round trip" THEN [p \in PageIds |-> RtAfter(op, o, is_dirty, p)]
           ELSE rt
  /\ handles' = IF track = "handles" THEN [p \in PageIds |-> HandlesAfter(op, o, p)]
                ELSE handles
  /\ UNCHANGED threadVars

\* The model records no access once current_timestamp_ has reached its cap.
ClockLeft(cap) == replacer_.current_timestamp_ < cap

Init ==
  /\ pages_ = NewBpm.pages_
  /\ page_table_ = NewBpm.page_table_
  /\ free_list_ = NewBpm.free_list_
  /\ next_page_id_ = NewBpm.next_page_id_
  /\ replacer_ = NewBpm.replacer_
  /\ disk = NewBpm.disk
  /\ io = <<>>
  /\ ret = [op |-> "ctor", page |-> INVALID_PAGE_ID,
            frame |-> INVALID_PAGE_ID, ok |-> TRUE, thrown |-> "none"]
  /\ rt = [p \in PageIds |-> RtNone]
  /\ handles = [p \in PageIds |-> 0]
  /\ latch_ = NoThread
  /\ pc = [t \in Threads |-> "idle"]
  /\ call = [t \in Threads |-> NoCall]
  /\ replacer_latch_ = NoThread
  /\ rwlatch_ = [f \in FrameIds |-> Unlatched]
  /\ pending = <<>>

CallNewPage(cap, track) ==
  /\ ClockLeft(cap)
  /\ next_page_id_ < MaxPageId
  /\ \E o \in NewPage(Bpm) : Return("NewPage", o, FALSE, track)

CallFetchPage(cap, track) ==
  /\ ClockLeft(cap)
  /\ \E p \in PageIds : \E o \in FetchPage(Bpm, p) : Return("FetchPage", o, FALSE, track)

CallUnpinPage(track) ==
  \E p \in PageIds, d \in BOOLEAN : Return("UnpinPage", UnpinPage(Bpm, p, d), d, track)

\* A caller that holds a pinned Page* writes its buffer through GetData().
CallWriteData(track) ==
  \E f \in FrameIds, v \in Bytes :
    /\ pages_[f].pin_count_ > 0
    /\ pages_' = [pages_ EXCEPT ![f].data_ = v]
    /\ io' = <<>>
    /\ ret' = [op |-> "WriteData", page |-> pages_[f].page_id_,
               frame |-> f, ok |-> TRUE, thrown |-> "none"]
    /\ rt' = IF track = "round trip" THEN [p \in PageIds |-> RtAfterWrite(f, v, p)] ELSE rt
    /\ UNCHANGED handles
    /\ UNCHANGED <<page_table_, free_list_, next_page_id_, replacer_, disk>>
    /\ UNCHANGED threadVars

DoNewPage == CallNewPage(MaxTimestamp, "none")

DoFetchPage == CallFetchPage(MaxTimestamp, "none")

DoUnpinPage == CallUnpinPage("none")

DoFlushPage ==
  \E p \in PageIds : Return("FlushPage", FlushPage(Bpm, p), FALSE, "none")

DoFlushAllPages ==
  \E o \in FlushAllPages(Bpm) : Return("FlushAllPages", o, FALSE, "none")

DoDeletePage ==
  \E p \in PageIds : Return("DeletePage", DeletePage(Bpm, p), FALSE, "none")

DoWriteData == CallWriteData("none")

Next ==
  \/ DoNewPage
  \/ DoFetchPage
  \/ DoUnpinPage
  \/ DoFlushPage
  \/ DoFlushAllPages
  \/ DoDeletePage

\* Any sequence of calls of the buffer pool manager, one at a time (each holds
\* latch_ from its first statement to its return).
Spec == Init /\ [][Next]_vars

NextData ==
  \/ Next
  \/ DoWriteData

\* The same, with callers that write the pages they hold pinned.
SpecData == Init /\ [][NextData]_vars

\* A further BufferPoolManager is constructed while the run goes on: the
\* constructor throws, and the pool of the run is as it was.
DoConstruct ==
  \E pool_size \in 1 .. PoolSize, replacer_k \in 1 .. ReplacerK :
    LET o == BufferPoolManager(pool_size, replacer_k)
    IN /\ ret' = [op |-> "BufferPoolManager", page |-> INVALID_PAGE_ID,
                  frame |-> INVALID_PAGE_ID, ok |-> o.constructed, thrown |-> o.thrown]
       /\ io' = <<>>
       /\ UNCHANGED <<bpmVars, rt, handles>>
       /\ UNCHANGED threadVars

NextConstruct ==
  \/ Next
  \/ DoConstruct

\* Calls of the buffer pool manager and of its constructor.
SpecConstruct == Init /\ [][NextConstruct]_vars

\* ------------------------------------------- the round trip through eviction
RtNewPage == CallNewPage(RoundTripClock, "round trip")

RtFetchPage == CallFetchPage(RoundTripClock, "round trip")

RtUnpinPage == CallUnpinPage("round trip")

RtWriteData == CallWriteData("round trip")

NextRoundTrip ==
  \/ RtNewPage
  \/ RtFetchPage
  \/ RtUnpinPage
  \/ RtWriteData

\* Any sequence of new_page, fetch_page, unpin_page and writes through handles.
SpecRoundTrip == Init /\ [][NextRoundTrip]_vars

\* --------------------------------------------------------- handles on pages
PinNewPage == CallNewPage(MaxTimestamp, "handles")

PinFetchPage == CallFetchPage(MaxTimestamp, "handles")

PinUnpinPage == CallUnpinPage("handles")

PinDeletePage ==
  \E p \in PageIds : Return("DeletePage", DeletePage(Bpm, p), FALSE, "handles")

NextPins ==
  \/ PinNewPage
  \/ PinFetchPage
  \/ PinUnpinPage
  \/ PinDeletePage

\* Any sequence of new_page, fetch_page, unpin_page and delete_page, with the
\* handles on each page counted.
SpecPins == Init /\ [][NextPins]_vars

\* ------------------------------------------------- the replacer on its own
ReplacerReturn(op, r, f, flag, ok, thrown) ==
  /\ replacer_' = r
  /\ ret' = [op |-> op, page |-> INVALID_PAGE_ID, frame |-> f,
             ok |-> ok, thrown |-> thrown]
  /\ UNCHANGED <<pages_, page_table_, free_list_, next_page_id_, disk, io, rt, handles>>
  /\ UNCHANGED threadVars

DoRecordAccess ==
  /\ ClockLeft(ReplacerClock)
  /\ \E f \in AnyFrameIds :
       LET a == RecordAccess(replacer_, f)
       IN ReplacerReturn("RecordAccess", a.r, f, FALSE, a.thrown = "none", a.thrown)

DoSetEvictable ==
  \E f \in AnyFrameIds, flag \in BOOLEAN :
    LET a == SetEvictable(replacer_, f, flag)
    IN ReplacerReturn("SetEvictable", a.r, f, flag, a.thrown = "none", a.thrown)

DoEvict ==
  \E e \in EvictOutcomes(replacer_) :
    ReplacerReturn("Evict", e.r, e.frame, FALSE, e.ok, e.thrown)

DoRemove ==
  \E f \in AnyFrameIds :
    LET a == Remove(replacer_, f)
    IN ReplacerReturn("Remove", a.r, f, FALSE, a.thrown = "none", a.thrown)

NextReplacer ==
  \/ DoRecordAccess
  \/ DoSetEvictable
  \/ DoEvict
  \/ DoRemove

\* Any sequence of calls of a replacer, with any frame id.
SpecReplacer == Init /\ [][NextReplacer]_vars

\* ------------------------------------------- threads that call the replacer
\* The replacer operations that take latch_ (lines 21, 53, 70, 87).
LockingOps == {"RecordAccess", "SetEvictable", "Evict", "Remove"}

\* The operations that write curr_size_ (lines 47, 78, 80, 103).
SizeWriters == {"SetEvictable", "Evict", "Remove"}

\* std::lock_guard(latch_) of the replacer returns once no thread holds it.
ReplacerLatchFree == replacer_latch_ = NoThread

\* The calls of RecordAccess that threads have made and not yet carried out.
AccessesToCome ==
  Cardinality({u \in Threads : pc[u] # "idle" /\ call[u].op = "RecordAccess"})

\* Thread t calls a replacer operation. Every operation but Size starts with
\* the lock_guard; Size (line 108) goes straight to its read of curr_size_.
ReplacerCall(t) ==
  /\ pc[t] = "idle"
  /\ \E op \in LockingOps \cup {"Size"}, f \in FrameIds, flag \in BOOLEAN :
       /\ op \in {"Evict", "Size"} => f = 0
       /\ op # "SetEvictable" => ~flag
       /\ op = "RecordAccess" =>
            replacer_.current_timestamp_ + AccessesToCome < MaxTimestamp
       /\ call' = [call EXCEPT ![t] = [NoCall EXCEPT !.op = op, !.frame_id = f,
                                                      !.flag = flag]]
       /\ pc' = [pc EXCEPT ![t] = IF op = "Size" THEN "size" ELSE "rlock"]
  /\ UNCHANGED <<bpmVars, io, ret, rt, handles, latch_, replacer_latch_, rwlatch_, pending>>

\* auto guard = std::lock_guard(latch_);
ReplacerLock(t) ==
  /\ pc[t] = "rlock"
  /\ ReplacerLatchFree
  /\ replacer_latch_' = t
  /\ pc' = [pc EXCEPT ![t] = "rbody"]
  /\ UNCHANGED <<bpmVars, io, ret, rt, handles, latch_, call, rwlatch_, pending>>

\* Every outcome of the operation thread t is in, as [r, thrown].
ReplacerOutcomes(t) ==
  LET c == call[t]
  IN IF c.op = "RecordAccess" THEN {RecordAccess(replacer_, c.frame_id)}
     ELSE IF c.op = "SetEvictable" THEN {SetEvictable(replacer_, c.frame_id, c.flag)}
     ELSE IF c.op = "Remove" THEN {Remove(replacer_, c.frame_id)}
     ELSE {[r |-> e.r, thrown |-> e.thrown] : e \in EvictOutcomes(replacer_)}

\* The body of the operation under latch_, to its return or its throw: the
\* guard's destructor unlocks latch_ either way.
ReplacerBody(t) ==
  /\ pc[t] = "rbody"
  /\ \E a \in ReplacerOutcomes(t) : replacer_' = a.r
  /\ replacer_latch_' = NoThread
  /\ pc' = [pc EXCEPT ![t] = "idle"]
  /\ UNCHANGED <<pages_, page_table_, free_list_, next_page_id_, disk, io, ret, rt,
                 handles, latch_, call, rwlatch_, pending>>

\* The values a read of curr_size_ by thread t can give: curr_size_, unless
\* another thread is inside an operation that writes curr_size_; the read then
\* races with the write (undefined behaviour) and gives any value.
SizeRead(t) ==
  IF \E u \in Threads \ {t} : pc[u] = "rbody" /\ call[u].op \in SizeWriters
    THEN 0 .. PoolSize
    ELSE {Size(replacer_)}

\* LRUKReplacer::Size: return curr_size_; no lock is taken.
ReplacerSize(t) ==
  /\ pc[t] = "size"
  /\ \E n \in SizeRead(t) : call' = [call EXCEPT ![t].page = n]
  /\ pc' = [pc EXCEPT ![t] = "idle"]
  /\ UNCHANGED <<bpmVars, io, ret, rt, handles, latch_, replacer_latch_, rwlatch_, pending>>

NextReplacerThreads ==
  \E t \in Threads :
    \/ ReplacerCall(t)
    \/ ReplacerLock(t)
    \/ ReplacerBody(t)
    \/ ReplacerSize(t)

\* NumThreads threads that call the replacer's operations, in any interleaving.
SpecReplacerThreads == Init /\ [][NextReplacerThreads]_vars

\* ---------------------------------------------- threads that call FetchPage
\* A lock_guard that does not wait.
LatchNeverHeld == TRUE

\* std::lock_guard(latch_) returns once no thread holds latch_.
LatchFree == latch_ = NoThread

\* The pool as a thread inside FetchPage sees it: io keeps every request.
BpmNow == [Bpm EXCEPT !.io = io]

Store(b) ==
  /\ pages_' = b.pages_
  /\ page_table_' = b.page_table_
  /\ free_list_' = b.free_list_
  /\ next_page_id_' = b.next_page_id_
  /\ replacer_' = b.replacer_
  /\ disk' = b.disk
  /\ io' = b.io

\* The return of thread t's FetchPage: the guard's destructor unlocks latch_.
ThreadReturn(t, page) ==
  /\ latch_' = NoThread
  /\ pc' = [pc EXCEPT ![t] = "done"]
  /\ call' = [call EXCEPT ![t].page = page]

\* Thread t calls FetchPage(p); it runs beside any call already inside.
ThreadCall(t) ==
  /\ pc[t] = "idle"
  /\ \E p \in PageIds :
       call' = [call EXCEPT ![t].page_id = p,
                            ![t].concurrent = \E u \in Threads : pc[u] \in {"find", "read", "install"}]
  /\ pc' = [pc EXCEPT ![t] = "lock"]
  /\ UNCHANGED <<bpmVars, io, ret, rt, handles, latch_, replacer_latch_, rwlatch_, pending>>

\* auto guard = std::lock_guard(latch_);
ThreadLock(t) ==
  /\ pc[t] = "lock"
  /\ LatchFree
  /\ latch_' = t
  /\ pc' = [pc EXCEPT ![t] = "find"]
  /\ UNCHANGED <<bpmVars, io, ret, rt, handles, call, replacer_latch_, rwlatch_, pending>>

\* Lines 66-81: the hit, or AllocateFrame for the miss.
ThreadFind(t) ==
  /\ pc[t] = "find"
  /\ IF Resident(BpmNow, call[t].page_id)
       THEN LET o == FetchPageHit(BpmNow, call[t].page_id)
            IN Store(o.b) /\ ThreadReturn(t, o.frame)
       ELSE \E a \in AllocateFrame(BpmNow) :
              /\ Store(a.b)
              /\ IF a.frame_id = INVALID_PAGE_ID
                   THEN ThreadReturn(t, INVALID_PAGE_ID)
                   ELSE /\ call' = [call EXCEPT ![t].frame_id = a.frame_id]
                        /\ pc' = [pc EXCEPT ![t] = "read"]
                        /\ UNCHANGED latch_
  /\ UNCHANGED <<ret, rt, handles, replacer_latch_, rwlatch_, pending>>

\* Line 84: ReadFrame schedules the read and waits for it.
ThreadRead(t) ==
  /\ pc[t] = "read"
  /\ Store(ReadFrame(BpmNow, call[t].frame_id, call[t].page_id))
  /\ pc' = [pc EXCEPT ![t] = "install"]
  /\ UNCHANGED <<ret, rt, handles, latch_, call, replacer_latch_, rwlatch_, pending>>

\* Lines 85-93.
ThreadInstall(t) ==
  /\ pc[t] = "install"
  /\ LET o == FetchPageInstall(BpmNow, call[t].frame_id, call[t].page_id)
     IN Store(o.b) /\ ThreadReturn(t, o.frame)
  /\ UNCHANGED <<ret, rt, handles, replacer_latch_, rwlatch_, pending>>

NextThreads ==
  \E t \in Threads :
    \/ ThreadCall(t)
    \/ ThreadLock(t)
    \/ ThreadFind(t)
    \/ ThreadRead(t)
    \/ ThreadInstall(t)

\* NumThreads threads, each calling FetchPage once, in any interleaving.
SpecThreads == Init /\ [][NextThreads]_vars

\* ------------------------------------------ threads that use the page guards
\* Cap on current_timestamp_ in SpecGuards.
GuardsClock == MaxTimestamp - 1

FetchOps == {"FetchPageBasic", "FetchPageRead", "FetchPageWrite"}

\* The guard factories that latch the page they return (lines 178, 184).
LatchingOps == {"FetchPageRead", "FetchPageWrite"}

\* The frames whose rwlatch_ thread t holds, as reader or as writer.
Latched(t) == {f \in FrameIds : rwlatch_[f].writer = t \/ t \in rwlatch_[f].readers}

\* The process is alive: no thread has dereferenced a null Page*.
Alive == \A t \in Threads : pc[t] # "aborted"

\* Thread t, holding whatever latches it holds, calls a guard factory or a
\* public operation and arrives at its first statement, the lock_guard.
GuardCall(t) ==
  /\ Alive
  /\ pc[t] = "idle"
  /\ pc' = [pc EXCEPT ![t] = "lock"]
  /\ UNCHANGED <<bpmVars, io, ret, rt, handles, latch_, call, replacer_latch_, rwlatch_,
                 pending>>

\* The calls thread t may be in when it is at a lock_guard: the UnpinPage of
\* the guard it is dropping, or else any guard factory, UnpinPage or DeletePage;
\* it does not ask for a latch on a page it has latched.
GuardCalls(t) ==
  IF call[t].op # "none" THEN {call[t]}
  ELSE {[NoCall EXCEPT !.op = op, !.page_id = p] :
          op \in {o \in FetchOps \cup {"UnpinPage", "DeletePage"} :
                    o \in FetchOps => ClockLeft(GuardsClock)},
          p \in {q \in PageIds : \A f \in Latched(t) : pages_[f].page_id_ # q}}
       \cup {[NoCall EXCEPT !.op = "NewPageGuarded"] :
               x \in {y \in {0} : ClockLeft(GuardsClock) /\ next_page_id_ < MaxPageId}}

\* A read or write guard goes out of scope: it releases the latch of its
\* frame, then calls UnpinPage with is_dirty = true for a write guard.
GuardDrop(t) ==
  /\ Alive
  /\ pc[t] = "idle"
  /\ \E f \in Latched(t) :
       /\ rwlatch_' = [rwlatch_ EXCEPT
                         ![f] = IF rwlatch_[f].writer = t
                                  THEN [@ EXCEPT !.writer = NoThread]
                                  ELSE [@ EXCEPT !.readers = @ \ {t}]]
       /\ call' = [call EXCEPT ![t] = [NoCall EXCEPT !.op = "UnpinPage",
                                                      !.page_id = pages_[f].page_id_,
                                                      !.flag = (rwlatch_[f].writer = t)]]
  /\ pc' = [pc EXCEPT ![t] = "lock"]
  /\ UNCHANGED <<bpmVars, io, ret, rt, handles, latch_, replacer_latch_, pending>>

\* The body of the operation in call c, run on pool b, calls into the
\* replacer: NewPage and FetchPage always do (Evict or RecordAccess), UnpinPage
\* when pin_count_ reaches 0 (line 115), DeletePage when it deletes (line 161).
CallsReplacer(b, c) ==
  IF c.op = "UnpinPage"
    THEN Resident(b, c.page_id) /\ b.pages_[b.page_table_[c.page_id]].pin_count_ = 1
  ELSE IF c.op = "DeletePage"
    THEN Resident(b, c.page_id) /\ b.pages_[b.page_table_[c.page_id]].pin_count_ = 0
  ELSE TRUE

\* auto guard = std::lock_guard(latch_); the first statement of every operation.
GuardLock(t) ==
  /\ Alive
  /\ pc[t] = "lock"
  /\ LatchFree
  /\ latch_' = t
  /\ \E c \in GuardCalls(t) :
       /\ call' = [call EXCEPT ![t] = c]
       /\ pc' = [pc EXCEPT ![t] = IF CallsReplacer(Bpm, c) THEN "replacer" ELSE "body"]
  /\ UNCHANGED <<bpmVars, io, ret, rt, handles, replacer_latch_, rwlatch_, pending>>

\* The lock_guard of the replacer operation the body calls.
GuardReplacerLock(t) ==
  /\ Alive
  /\ pc[t] = "replacer"
  /\ ReplacerLatchFree
  /\ replacer_latch_' = t
  /\ pc' = [pc EXCEPT ![t] = "body"]
  /\ UNCHANGED <<bpmVars, io, ret, rt, handles, latch_, call, rwlatch_, pending>>

\* Every outcome of the operation in call c on pool b.
GuardOutcomes(b, c) ==
  IF c.op \in FetchOps THEN FetchPage(b, c.page_id)
  ELSE IF c.op = "NewPageGuarded" THEN NewPage(b)
  ELSE IF c.op = "UnpinPage" THEN {UnpinPage(b, c.page_id, c.flag)}
  ELSE {DeletePage(b, c.page_id)}

\* A guard factory that latches only once it has latched, inside latch_.
UnlockAfterLatch(t) ==
  latch_' = IF call[t].op \in LatchingOps THEN t ELSE NoThread

\* The return of the operation: its lock_guard goes out of scope. FetchPage has
\* returned before FetchPageRead and FetchPageWrite latch (lines 177-178, 183-184).
UnlockAtReturn(t) == latch_' = NoThread

\* The body of the operation, with the replacer's latch_ taken and released
\* inside it, to its return.
GuardBody(t) ==
  /\ Alive
  /\ pc[t] = "body"
  /\ latch_ = t
  /\ CallsReplacer(Bpm, call[t]) => replacer_latch_ = t
  /\ \E o \in GuardOutcomes(Bpm, call[t]) :
       /\ pages_' = o.b.pages_
       /\ page_table_' = o.b.page_table_
       /\ free_list_' = o.b.free_list_
       /\ next_page_id_' = o.b.next_page_id_
       /\ replacer_' = o.b.replacer_
       /\ disk' = o.b.disk
       /\ call' = [call EXCEPT ![t] = IF call[t].op \in LatchingOps
                                         THEN [@ EXCEPT !.page = o.frame]
                                         ELSE NoCall]
  /\ replacer_latch_' = NoThread
  /\ UnlockAtReturn(t)
  /\ pc' = [pc EXCEPT ![t] = IF call[t].op \in LatchingOps THEN "latch" ELSE "idle"]
  /\ UNCHANGED <<io, ret, rt, handles, rwlatch_, pending>>

\* page->RLatch() / page->WLatch() (lines 178, 184) on the Page* FetchPage
\* returned. On nullptr the call is undefined behaviour: the process dies, and
\* no thread takes another step.
GuardLatch(t) ==
  /\ Alive
  /\ pc[t] = "latch"
  /\ IF call[t].page = INVALID_PAGE_ID
       THEN /\ pc' = [pc EXCEPT ![t] = "aborted"]
            /\ UNCHANGED <<rwlatch_, call>>
       ELSE LET f == call[t].page
            IN /\ rwlatch_[f].writer = NoThread
               /\ call[t].op = "FetchPageWrite" => rwlatch_[f].readers = {}
               /\ rwlatch_' = [rwlatch_ EXCEPT
                                 ![f] = IF call[t].op = "FetchPageWrite"
                                          THEN [@ EXCEPT !.writer = t]
                                          ELSE [@ EXCEPT !.readers = @ \cup {t}]]
               /\ call' = [call EXCEPT ![t] = NoCall]
               /\ pc' = [pc EXCEPT ![t] = "idle"]
  /\ UNCHANGED <<bpmVars, io, ret, rt, handles, latch_, replacer_latch_, pending>>

NextGuards ==
  \E t \in Threads :
    \/ GuardCall(t)
    \/ GuardDrop(t)
    \/ GuardLock(t)
    \/ GuardReplacerLock(t)
    \/ GuardBody(t)
    \/ GuardLatch(t)

\* NumThreads threads that take and drop page guards and call UnpinPage and
\* DeletePage, in any interleaving.
SpecGuards == Init /\ [][NextGuards]_vars

\* -------------------------- threads that call the six operations for ever
\* Cap on current_timestamp_ in SpecLive.
LiveClock == MaxTimestamp - 2

\* Thread t calls one of the six operations and arrives at its first
\* statement, the lock_guard.
LiveCall(t) ==
  /\ pc[t] = "idle"
  /\ pc' = [pc EXCEPT ![t] = "lock"]
  /\ UNCHANGED <<bpmVars, io, ret, rt, handles, latch_, call, replacer_latch_, rwlatch_,
                 pending>>

\* The calls a thread may be in when it is at a lock_guard.
LiveCalls ==
  {[NoCall EXCEPT !.op = op, !.page_id = p] :
     op \in {o \in {"FetchPage", "FlushPage", "DeletePage"} :
               o = "FetchPage" => ClockLeft(LiveClock)},
     p \in PageIds}
  \cup {[NoCall EXCEPT !.op = "UnpinPage", !.page_id = p, !.flag = d] :
          p \in PageIds, d \in BOOLEAN}
  \cup {[NoCall EXCEPT !.op = "NewPage"] :
          x \in {y \in {0} : ClockLeft(LiveClock) /\ next_page_id_ < MaxPageId}}
  \cup {[NoCall EXCEPT !.op = "FlushAllPages"]}

\* auto guard = std::lock_guard(latch_); the first statement of every operation.
LiveLock(t) ==
  /\ pc[t] = "lock"
  /\ LatchFree
  /\ latch_' = t
  /\ \E c \in LiveCalls : call' = [call EXCEPT ![t] = c]
  /\ pc' = [pc EXCEPT ![t] = "body"]
  /\ UNCHANGED <<bpmVars, io, ret, rt, handles, replacer_latch_, rwlatch_, pending>>

\* Every outcome of the operation in call c on pool b.
LiveOutcomes(b, c) ==
  IF c.op = "NewPage" THEN NewPage(b)
  ELSE IF c.op = "FetchPage" THEN FetchPage(b, c.page_id)
  ELSE IF c.op = "UnpinPage" THEN {UnpinPage(b, c.page_id, c.flag)}
  ELSE IF c.op = "FlushPage" THEN {FlushPage(b, c.page_id)}
  ELSE IF c.op = "FlushAllPages" THEN FlushAllPages(b)
  ELSE {DeletePage(b, c.page_id)}

\* The body of the operation under latch_: its disk requests are with the
\* scheduler and the thread is in future.get() (lines 214-215, 228-229) until
\* the last of them is fulfilled.
LiveBody(t) ==
  /\ pc[t] = "body"
  /\ latch_ = t
  /\ \E o \in LiveOutcomes(Bpm, call[t]) :
       /\ pages_' = o.b.pages_
       /\ page_table_' = o.b.page_table_
       /\ free_list_' = o.b.free_list_
       /\ next_page_id_' = o.b.next_page_id_
       /\ replacer_' = o.b.replacer_
       /\ pending' = o.b.io
       /\ ret' = [op |-> call[t].op, page |-> o.page, frame |-> o.frame,
                  ok |-> o.ok, thrown |-> o.thrown]
  /\ pc' = [pc EXCEPT ![t] = "await"]
  /\ UNCHANGED <<disk, io, rt, handles, latch_, call, replacer_latch_, rwlatch_>>

\* The disk scheduler's worker fulfils the oldest request: a write reaches the
\* disk, and the request's promise is set.
LiveComplete ==
  /\ pending # <<>>
  /\ disk' = IF Head(pending).is_write_ THEN DiskAfterWrite(disk, Head(pending)) ELSE disk
  /\ pending' = Tail(pending)
  /\ UNCHANGED <<pages_, page_table_, free_list_, next_page_id_, replacer_, io, ret, rt,
                 handles, latch_, pc, call, replacer_latch_, rwlatch_>>

\* A lock_guard replaced by lock() and an unlock() on the successful path only.
UnlockOnSuccess(t) == latch_' = IF ret.ok THEN NoThread ELSE t

\* The lock_guard goes out of scope at every return statement.
UnlockOnEveryPath(t) == latch_' = NoThread

\* The return of the operation, once every future.get() has returned.
LiveReturn(t) ==
  /\ pc[t] = "await"
  /\ pending = <<>>
  /\ UnlockOnEveryPath(t)
  /\ pc' = [pc EXCEPT ![t] = "idle"]
  /\ call' = [call EXCEPT ![t] = NoCall]
  /\ UNCHANGED <<bpmVars, io, ret, rt, handles, replacer_latch_, rwlatch_, pending>>

NextLive ==
  \/ LiveComplete
  \/ \E t \in Threads :
       \/ LiveCall(t)
       \/ LiveLock(t)
       \/ LiveBody(t)
       \/ LiveReturn(t)

\* The scheduler fulfils every request, a thread that can run does, and a
\* thread at the lock_guard is not passed over for ever.
LiveFairness ==
  /\ WF_vars(LiveComplete)
  /\ \A t \in Threads :
       /\ SF_vars(LiveLock(t))
       /\ WF_vars(LiveBody(t))
       /\ WF_vars(LiveReturn(t))

\* NumThreads threads that call the six operations again and again, under a
\* fair scheduler and a disk scheduler that fulfils every request.
SpecLive == Init /\ [][NextLive]_vars /\ LiveFairness

\* =================================================================== claims
Evictable(f) == HasNode(replacer_, f) /\ replacer_.node_store_[f].is_evictable_

InFreeList(f) == \E i \in DOMAIN free_list_ : free_list_[i] = f

InPageTable(f) == \E p \in PageIds : page_table_[p] = f

\* C1: between calls no frame with pin_count_ > 0 is evictable in the replacer,
\* so the frame Evict would hand to AllocateFrame has pin_count_ = 0.
C1_PinnedNeverEvictable ==
  /\ \A f \in FrameIds : Evictable(f) => pages_[f].pin_count_ = 0
  /\ \A e \in EvictOutcomes(replacer_) : e.ok => pages_[e.frame].pin_count_ = 0

\* C1 witness: a NewPage took its frame by eviction (it wrote the victim back)
\* while another frame was pinned.
C1_Witness ==
  /\ ret.op = "NewPage" /\ ret.ok
  /\ Len(io) = 1 /\ io[1].is_write_
  /\ \E f \in FrameIds : f # ret.frame /\ pages_[f].pin_count_ > 0

\* C2: no two frames hold the same valid page id: the page table maps distinct
\* page ids to distinct frames, and a frame whose page_id_ is p is the frame
\* the page table maps p to.
C2_UniqueResidency ==
  /\ \A p, q \in PageIds :
       p # q /\ page_table_[p] # NoFrame => page_table_[p] # page_table_[q]
  /\ \A f \in FrameIds :
       pages_[f].page_id_ # INVALID_PAGE_ID => page_table_[pages_[f].page_id_] = f

\* C3: every frame is in exactly one of the free list and the range of the
\* page table.
C3_FreeOrMapped ==
  \A f \in FrameIds : InFreeList(f) # InPageTable(f)

\* The requests of a call hold a write of page a with bytes d.
Wrote(requests, a, d) ==
  \E i \in DOMAIN requests : requests[i] = DiskRequest(TRUE, d, a)

\* In requests, a write of page a comes before every read.
WroteFirst(requests, a) ==
  \A j \in DOMAIN requests :
    ~requests[j].is_write_ =>
      \E i \in 1 .. (j - 1) : requests[i].is_write_ /\ requests[i].page_id_ = a

\* Frame f holds a page before the step and another page, or none, after it.
LosesPage(f) ==
  /\ pages_[f].page_id_ # INVALID_PAGE_ID
  /\ pages_'[f].page_id_ # pages_[f].page_id_

\* The call wrote f's page back, with the bytes f held, iff f was dirty.
WrittenBackIffDirty(f) ==
  Wrote(io', pages_[f].page_id_, pages_[f].data_) <=> pages_[f].is_dirty_

\* C4 as claimed: whenever a frame's page id changes from A, by eviction or by
\* delete_page, the call wrote A's bytes to disk iff A was dirty.
C4_WriteBackIffDirty ==
  [][\A f \in FrameIds : LosesPage(f) => WrittenBackIffDirty(f)]_vars

\* C4 as amended: a frame that loses its page to an eviction (in NewPage or
\* FetchPage) has it written back, before any read into the frame, iff it was
\* dirty, and the disk then holds the frame's bytes; a frame that loses its
\* page to delete_page is never written, dirty or clean.
C4_EvictionWritesBackIffDirty ==
  [][\A f \in FrameIds :
       LosesPage(f) =>
         IF ret'.op = "DeletePage"
           THEN io' = <<>> /\ disk' = disk
           ELSE /\ ret'.op \in {"NewPage", "FetchPage"}
                /\ WrittenBackIffDirty(f)
                /\ pages_[f].is_dirty_ =>
                     /\ WroteFirst(io', pages_[f].page_id_)
                     /\ pages_[f].page_id_ # ret'.page =>
                          disk'[pages_[f].page_id_] = pages_[f].data_
                /\ ~pages_[f].is_dirty_ => \A i \in DOMAIN io' : ~io'[i].is_write_]_vars

\* C4 witness: a FetchPage evicted a dirty page: it wrote it back, then read.
C4_Witness ==
  /\ ret.op = "FetchPage" /\ ret.ok
  /\ Len(io) = 2 /\ io[1].is_write_ /\ ~io[2].is_write_
  /\ io[1].page_id_ # io[2].page_id_

\* C5: a page created by new_page, written, released with unpin_page(dirty =
\* true) and evicted by calls on other pages comes back from fetch_page with
\* the bytes written.
C5_RoundTrip ==
  \A p \in PageIds :
    rt[p].stage = "fetched" =>
      /\ ret.op = "FetchPage" /\ ret.page = p /\ ret.ok
      /\ pages_[ret.frame].data_ = rt[p].bytes

\* ------------------------------------------------------------- the replacer
Nodes(r) == {f \in FrameIds : HasNode(r, f)}

EvictableNodes(r) == {f \in Nodes(r) : r.node_store_[f].is_evictable_}

\* The oldest timestamp in f's history.
Oldest(r, f) == r.node_store_[f].history_[1]

\* f's k-distance is +infinity: fewer than k accesses are recorded.
Infinite(r, f) == Len(r.node_store_[f].history_) < r.k_

\* f's k-distance when it is finite.
Backward(r, f) == r.current_timestamp_ - Oldest(r, f)

\* g's k-distance is at most f's / equal to f's.
KDistanceAtMost(r, g, f) ==
  Infinite(r, f) \/ (~Infinite(r, g) /\ Backward(r, g) <= Backward(r, f))

KDistanceEqual(r, g, f) ==
  \/ Infinite(r, g) /\ Infinite(r, f)
  \/ ~Infinite(r, g) /\ ~Infinite(r, f) /\ Backward(r, g) = Backward(r, f)

\* C6: an Evict with an evictable node returns the evictable node of largest
\* k-distance and, among those, of smallest oldest timestamp, and removes it;
\* an Evict with no evictable node returns false and changes nothing.
C6_EvictLargestKDistance ==
  [][ret'.op = "Evict" =>
       IF EvictableNodes(replacer_) = {}
         THEN ~ret'.ok /\ replacer_' = replacer_
         ELSE /\ ret'.ok
              /\ ret'.frame \in EvictableNodes(replacer_)
              /\ \A g \in EvictableNodes(replacer_) :
                   /\ KDistanceAtMost(replacer_, g, ret'.frame)
                   /\ KDistanceEqual(replacer_, g, ret'.frame) =>
                        Oldest(replacer_, ret'.frame) <= Oldest(replacer_, g)
              /\ ~HasNode(replacer_', ret'.frame)
              /\ \A g \in FrameIds \ {ret'.frame} :
                   replacer_'.node_store_[g] = replacer_.node_store_[g]]_vars

\* C6 witness: Evict returned a frame and left evictable a node of infinite
\* k-distance: the two tied, and the oldest timestamp chose between them.
C6_Witness ==
  /\ ret.op = "Evict" /\ ret.ok
  /\ \E g \in EvictableNodes(replacer_) : Infinite(replacer_, g)

\* C7: Size() is the number of nodes whose is_evictable_ is true, and is
\* never below zero.
C7_SizeCountsEvictable ==
  /\ Size(replacer_) = Cardinality(EvictableNodes(replacer_))
  /\ Size(replacer_) >= 0

\* C7 witness: a call has just failed with an exception while a node was evictable.
C7_Witness ==
  /\ ret.thrown # "none"
  /\ Size(replacer_) >= 1

\* ------------------------------------------------------------------ threads
\* The read requests issued for page x.
Reads(x) == {i \in DOMAIN io : ~io[i].is_write_ /\ io[i].page_id_ = x}

\* The threads whose FetchPage(x) has returned.
Returned(x) == {t \in Threads : pc[t] = "done" /\ call[t].page_id = x}

\* C8: once two (or more) threads have returned from FetchPage(x) on a page x
\* that was not resident, one disk read of x was issued, every call returned
\* the same frame, and its pin_count_ is the number of calls.
C8_ConcurrentFetchReadsOnce ==
  \A x \in PageIds :
    Cardinality(Returned(x)) >= 2 =>
      /\ Cardinality(Reads(x)) = 1
      /\ \A t, u \in Returned(x) : call[t].page = call[u].page
      /\ \A t \in Returned(x) :
           /\ call[t].page \in FrameIds
           /\ pages_[call[t].page].page_id_ = x
           /\ pages_[call[t].page].pin_count_ = Cardinality(Returned(x))

\* C8 witness: two threads have returned from FetchPage(x), one of them having
\* called while the other was inside.
C8_Witness ==
  \E t, u \in Threads :
    /\ t # u
    /\ pc[t] = "done" /\ pc[u] = "done"
    /\ call[t].page_id = call[u].page_id
    /\ call[u].concurrent
    /\ pages_[call[t].page].pin_count_ = 2

\* ------------------------------------------------------------ pool exhausted
\* The free list is empty and every frame that holds a page is pinned.
AllPinned(b) ==
  /\ b.free_list_ = <<>>
  /\ \A f \in FrameIds : b.pages_[f].page_id_ # INVALID_PAGE_ID => b.pages_[f].pin_count_ > 0

\* The call returned none, raised nothing, issued no request and changed nothing.
RefusedUnchanged(b, o) ==
  /\ ~o.ok /\ o.frame = INVALID_PAGE_ID /\ o.thrown = "none"
  /\ o.b = b

\* C9: with the free list empty and every frame that holds a page pinned, NewPage and FetchPage
\* of a page that is not resident return none, raise nothing, issue no disk
\* request and leave the pool, the replacer and next_page_id_ as they were.
C9_ExhaustedChangesNothing ==
  AllPinned(Bpm) =>
    /\ \A o \in NewPage(Bpm) : RefusedUnchanged(Bpm, o)
    /\ \A p \in PageIds :
         ~Resident(Bpm, p) => \A o \in FetchPage(Bpm, p) : RefusedUnchanged(Bpm, o)

\* C9 witness: a NewPage has just returned none from a pool with every frame pinned.
C9_Witness ==
  /\ ret.op = "NewPage" /\ ~ret.ok
  /\ AllPinned(Bpm)

\* ------------------------------------------------------------------- delete
\* The state a delete of page p in frame f leaves: p is not in the page table,
\* f is on the free list and has no node, and a FetchPage(p) reads p from disk.
Deleted(b, f, p) ==
  /\ ~Resident(b, p)
  /\ \E i \in DOMAIN b.free_list_ : b.free_list_[i] = f
  /\ ~HasNode(b.replacer_, f)
  /\ \A o \in FetchPage(b, p) :
       /\ o.ok
       /\ o.b.io = Append(b.io, DiskRequest(FALSE, b.disk[p], p))

\* C10: DeletePage of a page that is not resident returns true and changes
\* nothing; of a pinned page returns false and changes nothing; of an unpinned
\* resident page returns true and leaves it deleted.
C10_DeletePage ==
  \A p \in PageIds :
    LET o == DeletePage(Bpm, p)
        f == page_table_[p]
    IN /\ o.thrown = "none"
       /\ ~Resident(Bpm, p) => o.ok /\ o.b = Bpm
       /\ Resident(Bpm, p) /\ pages_[f].pin_count_ > 0 => ~o.ok /\ o.b = Bpm
       /\ Resident(Bpm, p) /\ pages_[f].pin_count_ = 0 => o.ok /\ Deleted(o.b, f, p)

\* C10 witness: a DeletePage has just deleted a resident page whose frame held
\* bytes, and a pinned page is resident beside it.
C10_Witness ==
  /\ ret.op = "DeletePage" /\ ret.ok /\ ret.frame \in FrameIds
  /\ InFreeList(ret.frame)
  /\ \E p \in PageIds : Resident(Bpm, p) /\ pages_[page_table_[p]].pin_count_ > 0

\* -------------------------------------------------------------------- unpin
\* Outcome o of an UnpinPage on pool b released one pin of frame f: it returned
\* true, pin_count_ is one lower and not negative, f's node is evictable if
\* pin_count_ is now 0 and the replacer is untouched if it is not, and nothing
\* but f's pin_count_, f's is_dirty_ and the replacer differs from b.
Unpinned(b, o, f) ==
  /\ o.ok /\ o.thrown = "none"
  /\ o.b.pages_[f].pin_count_ = b.pages_[f].pin_count_ - 1
  /\ o.b.pages_[f].pin_count_ >= 0
  /\ IF o.b.pages_[f].pin_count_ = 0
       THEN /\ HasNode(b.replacer_, f)
            /\ o.b.replacer_.node_store_ =
                 [b.replacer_.node_store_ EXCEPT ![f].is_evictable_ = TRUE]
            /\ o.b.replacer_.current_timestamp_ = b.replacer_.current_timestamp_
            /\ Size(o.b.replacer_) = Cardinality(EvictableNodes(o.b.replacer_))
       ELSE /\ o.b.replacer_ = b.replacer_
            /\ ~(HasNode(b.replacer_, f) /\ b.replacer_.node_store_[f].is_evictable_)
  /\ o.b = [b EXCEPT !.pages_[f].pin_count_ = o.b.pages_[f].pin_count_,
                     !.pages_[f].is_dirty_ = o.b.pages_[f].is_dirty_,
                     !.replacer_ = o.b.replacer_]

\* C11: UnpinPage of a page that is not resident, or whose pin_count_ is 0,
\* returns false and changes nothing (the dirty hint is not applied, pin_count_
\* stays, the replacer is untouched); of a pinned resident page it returns
\* true, lowers pin_count_ by one and makes the frame evictable exactly when
\* pin_count_ has reached 0.
C11_UnpinPage ==
  \A p \in PageIds, hint \in BOOLEAN :
    LET o == UnpinPage(Bpm, p, hint)
        f == page_table_[p]
    IN IF ~Resident(Bpm, p) \/ pages_[f].pin_count_ <= 0
         THEN ~o.ok /\ o.thrown = "none" /\ o.b = Bpm
         ELSE Unpinned(Bpm, o, f)

\* C11 witness: an UnpinPage has just been refused on a resident page whose
\* pin_count_ is 0 and that is clean, beside a page that is still pinned.
C11_Witness ==
  /\ ret.op = "UnpinPage" /\ ~ret.ok /\ ret.frame \in FrameIds
  /\ pages_[ret.frame].pin_count_ = 0 /\ ~pages_[ret.frame].is_dirty_
  /\ Evictable(ret.frame)
  /\ \E g \in FrameIds : pages_[g].pin_count_ > 0 /\ InPageTable(g)

\* ---------------------------------------------------------------- dirtiness
\* Page p is resident and the frame the page table maps it to is dirty.
PageDirty(b, p) == Resident(b, p) /\ b.pages_[b.page_table_[p]].is_dirty_

\* The pool after the step.
BpmNext ==
  [pages_ |-> pages_', page_table_ |-> page_table_', free_list_ |-> free_list_',
   next_page_id_ |-> next_page_id_', replacer_ |-> replacer_', disk |-> disk',
   io |-> <<>>]

\* What the claim lets clear the dirty flag of page p held in frame f: a flush
\* that wrote p, an eviction of f that wrote p back, or a delete of p.
DirtyCleared(p, f) ==
  \/ /\ ret'.op \in {"FlushPage", "FlushAllPages"}
     /\ Wrote(io', p, pages_[f].data_)
     /\ page_table_'[p] = f
  \/ /\ ret'.op \in {"NewPage", "FetchPage"}
     /\ ret'.frame = f
     /\ Wrote(io', p, pages_[f].data_)
  \/ /\ ret'.op = "DeletePage" /\ ret'.page = p /\ ret'.ok
     /\ page_table_'[p] = NoFrame

\* C12: a resident page that is dirty stays resident and dirty through every
\* call (fetch_page hits and unpin_page(id, false) among them) but a flush that
\* writes it, an eviction that writes it back, and a delete_page of it.
C12_DirtyIsSticky ==
  [][\A p \in PageIds :
       PageDirty(Bpm, p) /\ ~PageDirty(BpmNext, p) => DirtyCleared(p, page_table_[p])]_vars

\* ------------------------------------------------------------- construction
\* The state the claim gives a pool that has just been constructed.
InitialPool(b) ==
  /\ \A f \in FrameIds : \E i \in DOMAIN b.free_list_ : b.free_list_[i] = f
  /\ Len(b.free_list_) = PoolSize
  /\ \A p \in PageIds : ~Resident(b, p)
  /\ \A f \in FrameIds :
       /\ b.pages_[f].page_id_ = INVALID_PAGE_ID
       /\ b.pages_[f].pin_count_ = 0
       /\ ~b.pages_[f].is_dirty_
  /\ Nodes(b.replacer_) = {}
  /\ Size(b.replacer_) = 0

\* C13: a call of the constructor succeeds (it throws nothing) and yields a
\* pool in the initial state: every frame on the free list, the page table
\* empty, every frame with no page, unpinned and clean, no node in the replacer.
C13_ConstructionSucceeds ==
  ret.op = "BufferPoolManager" =>
    /\ ret.ok /\ ret.thrown = "none"
    /\ InitialPool(Bpm)

\* ------------------------------------------------------------------- remove
\* What the claim has Remove(f) do to replacer r, given the exception (or
\* "none") it left with and the replacer r1 it left.
RemoveAsClaimed(r, f, thrown, r1) ==
  IF ~HasNode(r, f)
    THEN thrown = "none" /\ r1 = r
  ELSE IF ~r.node_store_[f].is_evictable_
    THEN thrown = "logic_error" /\ r1 = r
  ELSE /\ thrown = "none"
       /\ r1.node_store_ = [r.node_store_ EXCEPT ![f] = NoNode]
       /\ Size(r1) = Size(r) - 1
       /\ r1.current_timestamp_ = r.current_timestamp_

\* C14: Remove(f) raises nothing and changes nothing for every frame id with
\* no node, in range or out of range; raises the invalid-state error and
\* changes nothing for a node that is not evictable; deletes the node and
\* lowers Size() by one for an evictable node.
C14_Remove ==
  [][ret'.op = "Remove" =>
       RemoveAsClaimed(replacer_, ret'.frame, ret'.thrown, replacer_')]_vars

\* ---------------------------------------------------------------- free list
\* Every frame on the free list of b holds no page, is unpinned and clean, is
\* the target of no page-table entry and has no node in the replacer.
FreeFramesEmpty(b) ==
  \A i \in DOMAIN b.free_list_ :
    LET f == b.free_list_[i]
    IN /\ b.pages_[f].page_id_ = INVALID_PAGE_ID
       /\ b.pages_[f].pin_count_ = 0
       /\ ~b.pages_[f].is_dirty_
       /\ \A p \in PageIds : b.page_table_[p] # f
       /\ ~HasNode(b.replacer_, f)

\* C15: between calls every frame on the free list has page_id_ invalid,
\* pin_count_ 0 and is_dirty_ false, is in no page-table entry and has no node
\* in the replacer; every DeletePage that returns true leaves the pool so.
C15_FreeFramesAreEmpty ==
  /\ FreeFramesEmpty(Bpm)
  /\ \A p \in PageIds :
       LET o == DeletePage(Bpm, p)
       IN o.ok => FreeFramesEmpty(o.b)

\* C15 witness: a DeletePage has just put on the free list the frame of a
\* page that had been used, beside a frame that still has a node.
C15_Witness ==
  /\ ret.op = "DeletePage" /\ ret.ok /\ ret.frame \in FrameIds
  /\ free_list_ # <<>> /\ free_list_[Len(free_list_)] = ret.frame
  /\ Nodes(replacer_) # {}
  /\ replacer_.current_timestamp_ >= 2

\* ---------------------------------------------------------------- histories
\* Every node's history is non-empty, holds at most k_ timestamps, all of them
\* handed out already, in strictly increasing order.
HistoriesBounded(r) ==
  \A f \in Nodes(r) :
    LET h == r.node_store_[f].history_
    IN /\ Len(h) >= 1 /\ Len(h) <= r.k_
       /\ \A i \in DOMAIN h : h[i] >= 0 /\ h[i] < r.current_timestamp_
       /\ \A i, j \in DOMAIN h : i < j => h[i] < h[j]

\* History h with timestamp t appended, the oldest dropped if that exceeds k.
AppendThenTrim(h, t, k) ==
  LET h1 == Append(h, t)
  IN IF Len(h1) > k THEN Tail(h1) ELSE h1

\* r1 is r after an access of f was recorded at the current timestamp.
AccessRecorded(r, f, r1) ==
  /\ r1.current_timestamp_ = r.current_timestamp_ + 1
  /\ HasNode(r1, f)
  /\ r1.node_store_[f].history_ =
       AppendThenTrim(IF HasNode(r, f) THEN r.node_store_[f].history_ ELSE <<>>,
                      r.current_timestamp_, r.k_)
  /\ \A g \in FrameIds \ {f} : r1.node_store_[g] = r.node_store_[g]

\* r1 is r with no access recorded: the timestamp and the history of every
\* node that is left are as they were.
NoAccessRecorded(r, r1) ==
  /\ r1.current_timestamp_ = r.current_timestamp_
  /\ Nodes(r1) \subseteq Nodes(r)
  /\ \A g \in Nodes(r1) : r1.node_store_[g].history_ = r.node_store_[g].history_

\* C16: after every replacer call each node's history is non-empty, at most k
\* long and strictly increasing; a RecordAccess that succeeds appends the
\* current timestamp to the frame's history, keeps its k most recent entries
\* and advances the timestamp by one; a RecordAccess that throws, SetEvictable,
\* Evict and Remove leave the timestamp and the histories as they were.
C16_HistoryHoldsLastK ==
  [][/\ HistoriesBounded(replacer_')
     /\ IF ret'.op = "RecordAccess" /\ ret'.thrown = "none"
          THEN AccessRecorded(replacer_, ret'.frame, replacer_')
          ELSE NoAccessRecorded(replacer_, replacer_')]_vars

\* C16 witness: a RecordAccess has just left a full history that no longer
\* starts at the frame's first timestamp, on the only node there is, with
\* k + 1 timestamps handed out.
C16_Witness ==
  /\ ret.op = "RecordAccess" /\ ret.ok
  /\ Nodes(replacer_) = {ret.frame}
  /\ replacer_.current_timestamp_ = ReplacerK + 1
  /\ replacer_.node_store_[ret.frame].history_ = [i \in 1 .. ReplacerK |-> i]

\* ----------------------------------------------------------- pin accounting
\* C20: after every call the pin_count_ of each resident page is not negative
\* and equals the number of NewPage and FetchPage calls that returned the page
\* since it last became resident minus the number of UnpinPage calls on it
\* that returned true; a page leaves the page table, by eviction or by
\* DeletePage, only when that number is 0.
C20_PinAccounting ==
  [][\A p \in PageIds :
       /\ page_table_'[p] # NoFrame =>
            /\ pages_'[page_table_'[p]].pin_count_ >= 0
            /\ pages_'[page_table_'[p]].pin_count_ = handles'[p]
       /\ page_table_[p] # NoFrame /\ page_table_'[p] = NoFrame =>
            /\ handles[p] = 0
            /\ ret'.op \in {"NewPage", "FetchPage", "DeletePage"}]_vars

\* ------------------------------------------------------ the replacer mutex
\* C18: a thread that is inside a replacer operation, about to read or write
\* node_store_, current_timestamp_ or curr_size_, holds the replacer's latch_;
\* so no Size() reads curr_size_ while another thread is inside SetEvictable,
\* Evict or Remove.
C18_ReplacerStateUnderMutex ==
  /\ \A t \in Threads : pc[t] \in {"rbody", "size"} => replacer_latch_ = t
  /\ \A t, u \in Threads :
       ~(pc[t] = "size" /\ pc[u] = "rbody" /\ call[u].op \in SizeWriters)

\* -------------------------------------------------------------------- C17
\* Thread t is blocked on the rwlatch_ of the frame FetchPage returned to it.
WaitsForFrameLatch(t) ==
  /\ pc[t] = "latch"
  /\ call[t].page # INVALID_PAGE_ID
  /\ \/ rwlatch_[call[t].page].writer # NoThread
     \/ call[t].op = "FetchPageWrite" /\ rwlatch_[call[t].page].readers # {}

\* C17: in every interleaving of threads that call the guard factories,
\* UnpinPage and DeletePage while holding the latches of other pages, a thread
\* at a frame's rwlatch_ holds neither mutex, the replacer's latch_ is taken
\* only by the thread that holds the pool's latch_ and held only inside the
\* body, and the thread that holds the pool's latch_ can always take its next
\* step, so no deadlock involves either mutex.
C17_LockOrdering ==
  \A t \in Threads :
    /\ pc[t] = "latch" => latch_ # t /\ replacer_latch_ # t
    /\ pc[t] \in {"idle", "lock"} => latch_ # t /\ replacer_latch_ # t
    /\ pc[t] = "replacer" => latch_ = t /\ replacer_latch_ = NoThread
    /\ replacer_latch_ = t => latch_ = t /\ pc[t] = "body"
    /\ (Alive /\ latch_ = t) => ENABLED (GuardReplacerLock(t) \/ GuardBody(t))

\* Thread t waits for the write latch thread u holds on a frame while u, still
\* holding that latch, is inside an operation under the pool's latch_.
C17_Witness ==
  \E t \in Threads, u \in Threads :
    /\ t # u
    /\ WaitsForFrameLatch(t)
    /\ rwlatch_[call[t].page].writer = u
    /\ latch_ = u
    /\ pc[u] = "body"

\* -------------------------------------------------------------------- C19
\* latch_ is held from the lock_guard to the return, the wait for the disk
\* included, and by no thread outside an operation.
HeldForBody ==
  \A t \in Threads :
    /\ pc[t] \in {"body", "await"} => latch_ = t
    /\ pc[t] \in {"idle", "lock"} => latch_ # t

====
